---- MODULE Spec2Model ----
(***************************************************************************)
(* OnboardIQ frontend: the App shell (online flag, uploadKey, statistics   *)
(* and health probes, document upload) and the ChatInterface it mounts     *)
(* with key={uploadKey} (transcript, input, in-flight flag, language,      *)
(* /chat/query and /chat/feedback requests).                               *)
(*                                                                         *)
(* Texts are sequences of one-character strings.  A JavaScript object is a *)
(* record; a property that is missing or undefined is a missing field.     *)
(* A confidence or relevance score is held in hundredths (0.87 is 87).     *)
(* App.stats only feeds the sidebar and is left out; DocumentList is not  *)
(* rendered by App.                                                        *)
(***************************************************************************)
EXTENDS Integers, Sequences, FiniteSets, TLC

\* ------------------------------------------------------------------ bounds
\* asks accepted in one page load
MaxAsks == 2
\* largest value of App.uploadKey explored
MaxKey == 1
\* /chat/feedback requests outstanding at once
MaxFeedback == 1

\* ------------------------------------------------------------------ inputs
\* what the user can type into the input field
Texts == { <<" ">>, <<"q", " ">> }

\* the <option>s of the language selector explored
Languages == {"English", "Hindi"}

suggestedQuestions == << <<"h", "o", "w">> >>

Ratings == {"positive", "negative"}

Citation1 == [source_id |-> 1, file_name |-> "hr.pdf", page_number |-> 4, relevance_score |-> 91]

\* bodies the Retrieval Service can answer /chat/query with (HTTP 2xx)
Payloads ==
  { [answer |-> <<"x">>, citations |-> <<Citation1>>, confidence |-> 87],
    [answer |-> <<"y">>, citations |-> <<>>, confidence |-> 0],
    [detail |-> "no answer field"] }

\* how an HTTP call can end: a 2xx with a JSON object, a 2xx whose body is
\* JSON null, no response at all, a non-2xx status
Outcomes ==
  { [kind |-> "ok", data |-> d] : d \in Payloads }
    \cup { [kind |-> "null"], [kind |-> "network"], [kind |-> "http"] }

ApologyText ==
  <<"Sorry, I encountered an error. Please ensure documents are uploaded and backend server is running.">>

VARIABLES
  uploadKey,      \* App: key of the mounted ChatInterface
  isOnline,       \* App: backend believed reachable
  pendingStats,   \* App: GET /documents/list calls outstanding
  pendingHealth,  \* App: GET /health calls outstanding
  uploading,      \* App: POST /documents/upload outstanding
  messages,       \* ChatInterface: the transcript
  input,          \* ChatInterface: the input field
  loading,        \* ChatInterface: the in-flight flag
  language,       \* ChatInterface: the selected language
  queries,        \* POST /chat/query requests outstanding
  feedbacks,      \* number of POST /chat/feedback requests outstanding
  asks,           \* asks accepted since the page loaded
  clock,          \* readings of Date taken by handleSend
  last            \* the handler that ran last: the alert it showed, whether
                  \* it threw, the body it posted

vars == << uploadKey, isOnline, pendingStats, pendingHealth, uploading,
           messages, input, loading, language, queries, feedbacks, asks,
           clock, last >>

appVars == << uploadKey, isOnline, pendingStats, pendingHealth, uploading >>
chatVars == << messages, input, loading, language >>

\* ----------------------------------------------------------------- helpers
IsSpace(c) == c = " "

RECURSIVE TrimStart(_)
TrimStart(s) ==
  IF s # <<>> /\ IsSpace(Head(s)) THEN TrimStart(Tail(s)) ELSE s

RECURSIVE TrimEnd(_)
TrimEnd(s) ==
  IF s # <<>> /\ IsSpace(s[Len(s)]) THEN TrimEnd(SubSeq(s, 1, Len(s) - 1)) ELSE s

\* a handleSend that tests !text in place of !text.trim()
trim_none(s) == s

\* String.prototype.trim
trim(s) == TrimEnd(TrimStart(s))

Has(obj, f) == f \in DOMAIN obj

\* the handlers of ChatInterface are told apart, those of App are not
ChatOps ==
  { "mount", "handleSend", "handleSend(q)", "handleSend:settled",
    "handleFeedback", "handleFeedback:settled", "downloadChat" }

\* a handler that posted nothing
Ran(op, alert) ==
  [op |-> IF op \in ChatOps THEN op ELSE "other", alert |-> alert, raised |-> FALSE]

\* a handler that posted body to the Retrieval Service
Posted(op, body) ==
  [op |-> op, alert |-> "none", raised |-> FALSE, posted |-> body]

\* handleFeedback, called on the message at index target
Rated(target, body) ==
  [op |-> "handleFeedback", alert |-> "none", raised |-> FALSE, posted |-> body,
   target |-> target]

\* handleSend resumed with the response o of its request; its try, catch and
\* finally let nothing escape
Settling(o) ==
  [op |-> "handleSend:settled", alert |-> "none", raised |-> FALSE, response |-> o]

\* the state a freshly mounted ChatInterface starts in
MountChat ==
  /\ messages' = <<>>
  /\ input' = <<>>
  /\ loading' = FALSE
  /\ language' = "English"

Init ==
  /\ uploadKey = 0
  /\ isOnline = TRUE
  /\ pendingStats = 1
  /\ pendingHealth = 1
  /\ uploading = FALSE
  /\ messages = <<>>
  /\ input = <<>>
  /\ loading = FALSE
  /\ language = "English"
  /\ queries = {}
  /\ feedbacks = 0
  /\ asks = 0
  /\ clock = 0
  /\ last = Ran("mount", "none")

\* ------------------------------------------------------------ ChatInterface
\* a languagePrompt that is not left empty for English
languagePrompt_always(lang) == <<"Please answer in ", lang, ". ">>

languagePrompt(lang) ==
  IF lang # "English" THEN <<"Please answer in ", lang, ". ">> ELSE <<>>

\* a userMessage that keeps the text as it is sent to the service
UserMessage_augmented(text, t) ==
  [role |-> "user", content |-> languagePrompt(language) \o text, timestamp |-> t]

UserMessage(text, t) == [role |-> "user", content |-> text, timestamp |-> t]

\* api.js sendQuery: the body posted to /chat/query
sendQuery(query, conversationHistory) ==
  [query |-> query, conversation_history |-> conversationHistory, top_k |-> 5]

\* a handleSend that sends its request without calling setLoading(true)
AcceptSend_noLoading(text, op) ==
  /\ asks < MaxAsks
  /\ messages' = Append(messages, UserMessage(text, clock))
  /\ input' = <<>>
  /\ queries' = queries \cup
       { [key |-> uploadKey,
          body |-> sendQuery(languagePrompt(language) \o text, messages)] }
  /\ asks' = asks + 1
  /\ clock' = clock + 1
  /\ last' = Posted(op, sendQuery(languagePrompt(language) \o text, messages))
  /\ UNCHANGED << appVars, loading, language, feedbacks >>

\* the body of handleSend once its guards have passed
AcceptSend(text, op) ==
  /\ asks < MaxAsks
  /\ messages' = Append(messages, UserMessage(text, clock))
  /\ input' = <<>>
  /\ loading' = TRUE
  /\ queries' = queries \cup
       { [key |-> uploadKey,
          body |-> sendQuery(languagePrompt(language) \o text, messages)] }
  /\ asks' = asks + 1
  /\ clock' = clock + 1
  /\ last' = Posted(op, sendQuery(languagePrompt(language) \o text, messages))
  /\ UNCHANGED << appVars, language, feedbacks >>

\* the body of handleSend when a guard returns early
RejectSend(op, alert) ==
  /\ last' = Ran(op, alert)
  /\ UNCHANGED << appVars, chatVars, queries, feedbacks, asks, clock >>

OfflineAlert == "Backend is offline. Please start the backend server."

\* a handleSend whose first guard does not test loading
handleSend_noLock(text, op) ==
  IF trim(text) = <<>> THEN RejectSend(op, "none")
  ELSE IF ~isOnline THEN RejectSend(op, OfflineAlert)
  ELSE AcceptSend(text, op)

\* a handleSend that echoes the user message before it tests loading
handleSend_lateLock(text, op) ==
  IF trim(text) = <<>> THEN RejectSend(op, "none")
  ELSE IF loading
    THEN /\ asks < MaxAsks
         /\ messages' = Append(messages, UserMessage(text, clock))
         /\ asks' = asks + 1
         /\ clock' = clock + 1
         /\ last' = Ran(op, "none")
         /\ UNCHANGED << appVars, input, loading, language, queries, feedbacks >>
  ELSE IF ~isOnline THEN RejectSend(op, OfflineAlert)
  ELSE AcceptSend(text, op)

\* a handleSend without the isOnline guard
handleSend_noOfflineCheck(text, op) ==
  IF trim(text) = <<>> \/ loading THEN RejectSend(op, "none")
  ELSE AcceptSend(text, op)

\* a handleSend that echoes the user message before it tests isOnline
handleSend_echoOffline(text, op) ==
  IF trim(text) = <<>> \/ loading THEN RejectSend(op, "none")
  ELSE IF ~isOnline
    THEN /\ asks < MaxAsks
         /\ messages' = Append(messages, UserMessage(text, clock))
         /\ asks' = asks + 1
         /\ clock' = clock + 1
         /\ last' = Ran(op, OfflineAlert)
         /\ UNCHANGED << appVars, input, loading, language, queries, feedbacks >>
  ELSE AcceptSend(text, op)

\* handleSend up to its await
handleSend(text, op) ==
  IF trim(text) = <<>> \/ loading THEN RejectSend(op, "none")
  ELSE IF ~isOnline THEN RejectSend(op, OfflineAlert)
  ELSE AcceptSend(text, op)

\* the Send button and the Enter key: handleSend().  The field and the button
\* are disabled while loading or offline; the handler is taken as callable in
\* every state, which is what its own guards provide for.
SendTyped == handleSend(input, "handleSend")

\* a "Related questions" button: handleSend(q); callable in every state like
\* SendTyped
SendSuggestion ==
  \E i \in DOMAIN suggestedQuestions :
    handleSend(suggestedQuestions[i], "handleSend(q)")

\* an empty-state suggestion button
handleSuggestion ==
  \E i \in DOMAIN suggestedQuestions :
    /\ input' = suggestedQuestions[i]
    /\ last' = Ran("handleSuggestion", "none")
    /\ UNCHANGED << appVars, messages, loading, language, queries, feedbacks,
                    asks, clock >>

\* typing into the input field
SetInput ==
  \E t \in Texts :
    /\ input' = t
    /\ last' = Ran("setInput", "none")
    /\ UNCHANGED << appVars, messages, loading, language, queries, feedbacks,
                    asks, clock >>

SetLanguage ==
  \E l \in Languages :
    /\ language' = l
    /\ last' = Ran("setLanguage", "none")
    /\ UNCHANGED << appVars, messages, input, loading, queries, feedbacks,
                    asks, clock >>

\* the object handleSend builds from response.data
AssistantMessage(data, t) ==
  LET full == [role |-> "assistant",
               content |-> IF Has(data, "answer") THEN data.answer ELSE <<>>,
               citations |-> IF Has(data, "citations") THEN data.citations ELSE <<>>,
               confidence |-> IF Has(data, "confidence") THEN data.confidence ELSE 0,
               timestamp |-> t]
      keep == {"role", "timestamp"}
                \cup (IF Has(data, "answer") THEN {"content"} ELSE {})
                \cup (IF Has(data, "citations") THEN {"citations"} ELSE {})
                \cup (IF Has(data, "confidence") THEN {"confidence"} ELSE {})
  IN [f \in keep |-> full[f]]

ErrorMessage(t) ==
  [role |-> "assistant", content |-> ApologyText, timestamp |-> t, isError |-> TRUE]

\* a catch block that appends the apology without the isError flag
Settled_unflagged(o, t) ==
  IF o.kind = "ok" THEN AssistantMessage(o.data, t)
  ELSE [role |-> "assistant", content |-> ApologyText, timestamp |-> t]

\* the message handleSend appends once sendQuery has settled: the try block
\* when the response is an object, the catch block when axios rejected or
\* reading response.answer threw
Settled(o, t) ==
  IF o.kind = "ok" THEN AssistantMessage(o.data, t) ELSE ErrorMessage(t)

\* a handleSend whose catch block only logs
ResolveQuery_silentFailure ==
  \E r \in queries, o \in Outcomes :
    /\ queries' = queries \ {r}
    /\ clock' = clock + 1
    /\ IF r.key = uploadKey
         THEN /\ messages' = IF o.kind = "ok"
                               THEN Append(messages, Settled(o, clock))
                               ELSE messages
              /\ loading' = FALSE
         ELSE UNCHANGED << messages, loading >>
    /\ last' = Settling(o)
    /\ UNCHANGED << appVars, input, language, feedbacks, asks >>

\* a handleSend that calls setLoading(false) at the end of its try block, not
\* in a finally
ResolveQuery_noFinally ==
  \E r \in queries, o \in Outcomes :
    /\ queries' = queries \ {r}
    /\ clock' = clock + 1
    /\ IF r.key = uploadKey
         THEN /\ messages' = Append(messages, Settled(o, clock))
              /\ loading' = IF o.kind = "ok" THEN FALSE ELSE loading
         ELSE UNCHANGED << messages, loading >>
    /\ last' = Settling(o)
    /\ UNCHANGED << appVars, input, language, feedbacks, asks >>

\* a response that reaches the mounted ChatInterface whichever instance asked
ResolveQuery_staleApplied ==
  \E r \in queries, o \in Outcomes :
    /\ queries' = queries \ {r}
    /\ clock' = clock + 1
    /\ messages' = Append(messages, Settled(o, clock))
    /\ loading' = FALSE
    /\ last' = Settling(o)
    /\ UNCHANGED << appVars, input, language, feedbacks, asks >>

\* handleSend from its await on; the updates of a ChatInterface that was
\* unmounted meanwhile are dropped
ResolveQuery ==
  \E r \in queries, o \in Outcomes :
    /\ queries' = queries \ {r}
    /\ clock' = clock + 1
    /\ IF r.key = uploadKey
         THEN /\ messages' = Append(messages, Settled(o, clock))
              /\ loading' = FALSE
         ELSE UNCHANGED << messages, loading >>
    /\ last' = Settling(o)
    /\ UNCHANGED << appVars, input, language, feedbacks, asks >>

\* the query handleFeedback looks up: the content of the last user message
\* of the transcript, '' when there is none
userQuery(msgs) ==
  LET users == SelectSeq(msgs, LAMBDA m : m.role = "user")
  IN IF users = <<>> THEN <<>> ELSE users[Len(users)].content

\* api.js submitFeedback: the body posted to /chat/feedback (JSON drops an
\* undefined answer)
submitFeedback(query, message, rating) ==
  IF Has(message, "content")
    THEN [query |-> query, answer |-> message.content, rating |-> rating]
    ELSE [query |-> query, rating |-> rating]

\* handleFeedback taking the in-flight lock
handleFeedback_locking ==
  \E i \in DOMAIN messages, rating \in Ratings :
    /\ messages[i].role = "assistant"
    /\ ~Has(messages[i], "isError")
    /\ ~loading
    /\ feedbacks < MaxFeedback
    /\ feedbacks' = feedbacks + 1
    /\ loading' = TRUE
    /\ last' = Rated(i, submitFeedback(userQuery(messages), messages[i], rating))
    /\ UNCHANGED << appVars, messages, input, language, queries, asks, clock >>

\* a feedback button of message i, shown on assistant messages that are not
\* error messages: handleFeedback up to its await
handleFeedback ==
  \E i \in DOMAIN messages, rating \in Ratings :
    /\ messages[i].role = "assistant"
    /\ ~Has(messages[i], "isError")
    /\ feedbacks < MaxFeedback
    /\ feedbacks' = feedbacks + 1
    /\ last' = Rated(i, submitFeedback(userQuery(messages), messages[i], rating))
    /\ UNCHANGED << appVars, chatVars, queries, asks, clock >>

\* handleFeedback from its await on
ResolveFeedback ==
  \E ok \in BOOLEAN :
    /\ feedbacks > 0
    /\ feedbacks' = feedbacks - 1
    /\ last' = Ran("handleFeedback:settled",
                   IF ok THEN "Thank you for your feedback!" ELSE "none")
    /\ UNCHANGED << appVars, chatVars, queries, asks, clock >>

\* String.prototype.toUpperCase on a role
toUpperCase(role) == IF role = "user" THEN "USER" ELSE "ASSISTANT"

\* the lines downloadChat writes for one citation
CitationLines(cite) ==
  << [kind |-> "source", file_name |-> cite.file_name, page_number |-> cite.page_number],
     [kind |-> "relevance", percent |-> cite.relevance_score, decimals |-> 0] >>

RECURSIVE CitationsLines(_)
CitationsLines(cites) ==
  IF cites = <<>> THEN <<>>
  ELSE CitationLines(Head(cites)) \o CitationsLines(Tail(cites))

\* the block downloadChat writes for one message; an undefined content is
\* printed as the word undefined, a confidence of 0 is falsy
MessageBlock(msg) ==
  << [kind |-> "role", label |-> toUpperCase(msg.role)],
     [kind |-> "content",
      text |-> IF Has(msg, "content") THEN msg.content ELSE <<"undefined">>] >>
  \o (IF Has(msg, "citations") /\ Len(msg.citations) > 0
        THEN << [kind |-> "sources"] >> \o CitationsLines(msg.citations)
        ELSE <<>>)
  \o (IF Has(msg, "confidence") /\ msg.confidence # 0
        THEN << [kind |-> "confidence", percent |-> msg.confidence] >>
        ELSE <<>>)
  \o << [kind |-> "rule"] >>

\* an export that leaves the error messages out
RECURSIVE MessageBlocks_skipErrors(_)
MessageBlocks_skipErrors(msgs) ==
  IF msgs = <<>> THEN <<>>
  ELSE (IF Has(Head(msgs), "isError") THEN <<>> ELSE MessageBlock(Head(msgs)))
       \o MessageBlocks_skipErrors(Tail(msgs))

RECURSIVE MessageBlocks(_)
MessageBlocks(msgs) ==
  IF msgs = <<>> THEN <<>>
  ELSE MessageBlock(Head(msgs)) \o MessageBlocks(Tail(msgs))

\* the text downloadChat builds, line by line
ExportContent(msgs, lang, t) ==
  << [kind |-> "title"],
     [kind |-> "downloaded", at |-> t],
     [kind |-> "language", language |-> lang],
     [kind |-> "rule"] >>
  \o MessageBlocks(msgs)
  \o << [kind |-> "statistics"],
        [kind |-> "total", count |-> Len(msgs)],
        [kind |-> "questions",
         count |-> Len(SelectSeq(msgs, LAMBDA m : m.role = "user"))],
        [kind |-> "answers",
         count |-> Len(SelectSeq(msgs, LAMBDA m : m.role = "assistant"))] >>

\* downloadChat with a transcript to export: the file it hands to the browser
Exported(content) ==
  [op |-> "downloadChat", alert |-> "Chat session downloaded successfully!",
   raised |-> FALSE, artifact |-> content]

\* a downloadChat without the guard on an empty transcript
downloadChat_noEmptyCheck ==
  /\ last' = Exported(ExportContent(messages, language, clock))
  /\ UNCHANGED << appVars, chatVars, queries, feedbacks, asks, clock >>

\* the Export Chat button
downloadChat ==
  /\ last' = IF Len(messages) = 0
               THEN Ran("downloadChat", "No chat to download yet")
               ELSE Exported(ExportContent(messages, language, clock))
  /\ UNCHANGED << appVars, chatVars, queries, feedbacks, asks, clock >>

\* ---------------------------------------------------------------------- App
\* the effect on [uploadKey]: loadStats() and checkHealthStatus()
RunEffect ==
  /\ pendingStats' = pendingStats + 1
  /\ pendingHealth' = pendingHealth + 1

\* loadStats from its await on
ResolveStats ==
  \E ok \in BOOLEAN :
    /\ pendingStats > 0
    /\ pendingStats' = pendingStats - 1
    /\ isOnline' = ok
    /\ last' = Ran("loadStats:settled", "none")
    /\ UNCHANGED << uploadKey, pendingHealth, uploading, chatVars, queries,
                    feedbacks, asks, clock >>

\* checkHealthStatus from its await on
ResolveHealth ==
  \E ok \in BOOLEAN :
    /\ pendingHealth > 0
    /\ pendingHealth' = pendingHealth - 1
    /\ isOnline' = ok
    /\ last' = Ran("checkHealthStatus:settled", "none")
    /\ UNCHANGED << uploadKey, pendingStats, uploading, chatVars, queries,
                    feedbacks, asks, clock >>

\* the Refresh Statistics button: a new key remounts ChatInterface
handleRefresh ==
  /\ uploadKey < MaxKey
  /\ uploadKey' = uploadKey + 1
  /\ pendingStats' = pendingStats + 2
  /\ pendingHealth' = pendingHealth + 1
  /\ MountChat
  /\ last' = Ran("handleRefresh", "none")
  /\ UNCHANGED << isOnline, uploading, queries, feedbacks, asks, clock >>

\* what the file picker hands to handleFileUpload
Files == {"none", "oversize", "ok"}

\* handleFileUpload up to its await; the Upload button is disabled while an
\* upload is outstanding
handleFileUpload ==
  \E file \in Files :
    /\ ~uploading
    /\ IF file = "none"
         THEN /\ last' = Ran("handleFileUpload", "none")
              /\ UNCHANGED uploading
       ELSE IF file = "oversize"
         THEN /\ last' = Ran("handleFileUpload", "File too large")
              /\ UNCHANGED uploading
       ELSE /\ uploading' = TRUE
            /\ last' = Ran("handleFileUpload", "none")
    /\ UNCHANGED << uploadKey, isOnline, pendingStats, pendingHealth, chatVars,
                    queries, feedbacks, asks, clock >>

\* an upload whose success marks the backend online
ResolveUpload_backOnline ==
  \E o \in {"success", "refused", "error"} :
    /\ uploading
    /\ uploading' = FALSE
    /\ IF o = "success"
         THEN /\ uploadKey < MaxKey
              /\ uploadKey' = uploadKey + 1
              /\ RunEffect
              /\ MountChat
              /\ last' = Ran("handleFileUpload:settled", "Document uploaded successfully")
              /\ isOnline' = TRUE
       ELSE IF o = "refused"
         THEN /\ last' = Ran("handleFileUpload:settled", "Upload failed")
              /\ UNCHANGED << uploadKey, isOnline, pendingStats, pendingHealth, chatVars >>
       ELSE /\ isOnline' = FALSE
            /\ last' = Ran("handleFileUpload:settled", "Connection error")
            /\ UNCHANGED << uploadKey, pendingStats, pendingHealth, chatVars >>
    /\ UNCHANGED << queries, feedbacks, asks, clock >>

\* handleFileUpload from its await on: result.success, result.success falsy,
\* axios rejected
ResolveUpload ==
  \E o \in {"success", "refused", "error"} :
    /\ uploading
    /\ uploading' = FALSE
    /\ IF o = "success"
         THEN /\ uploadKey < MaxKey
              /\ uploadKey' = uploadKey + 1
              /\ RunEffect
              /\ MountChat
              /\ last' = Ran("handleFileUpload:settled", "Document uploaded successfully")
              /\ UNCHANGED isOnline
       ELSE IF o = "refused"
         THEN /\ last' = Ran("handleFileUpload:settled", "Upload failed")
              /\ UNCHANGED << uploadKey, isOnline, pendingStats, pendingHealth, chatVars >>
       ELSE /\ isOnline' = FALSE
            /\ last' = Ran("handleFileUpload:settled", "Connection error")
            /\ UNCHANGED << uploadKey, pendingStats, pendingHealth, chatVars >>
    /\ UNCHANGED << queries, feedbacks, asks, clock >>

\* the Clear Chat button, confirmed: window.location.reload() starts the page
\* again and drops every outstanding request
Reload ==
  /\ uploadKey' = 0
  /\ isOnline' = TRUE
  /\ pendingStats' = 1
  /\ pendingHealth' = 1
  /\ uploading' = FALSE
  /\ MountChat
  /\ queries' = {}
  /\ feedbacks' = 0
  /\ asks' = 0
  /\ clock' = 0
  /\ last' = Ran("mount", "none")

Next ==
  \/ SendTyped
  \/ SendSuggestion
  \/ handleSuggestion
  \/ SetInput
  \/ SetLanguage
  \/ ResolveQuery
  \/ handleFeedback
  \/ ResolveFeedback
  \/ downloadChat
  \/ ResolveStats
  \/ ResolveHealth
  \/ handleRefresh
  \/ handleFileUpload
  \/ ResolveUpload
  \/ Reload

\* one mounted ChatInterface, from its mount to its unmount: its own handlers
\* and the probes of App that set its isOnline prop
NextChat ==
  \/ SendTyped
  \/ SendSuggestion
  \/ handleSuggestion
  \/ SetInput
  \/ SetLanguage
  \/ ResolveQuery
  \/ handleFeedback
  \/ ResolveFeedback
  \/ downloadChat
  \/ ResolveStats
  \/ ResolveHealth

SpecChat == Init /\ [][NextChat]_vars

\* the page without the input field and the language selector: questions are
\* asked with the suggestion buttons
NextApp ==
  \/ SendSuggestion
  \/ ResolveQuery
  \/ handleFeedback
  \/ ResolveFeedback
  \/ downloadChat
  \/ ResolveStats
  \/ ResolveHealth
  \/ handleRefresh
  \/ handleFileUpload
  \/ ResolveUpload
  \/ Reload

SpecApp == Init /\ [][NextApp]_vars

\* the whole page
Spec == Init /\ [][Next]_vars

\* ------------------------------------------------------------------ claims
SendOps == {"handleSend", "handleSend(q)"}

\* the step is a call of handleSend
AskInvoked == last'.op \in SendOps

\* the step is a call of handleSend that sent a request
AskAccepted == AskInvoked /\ Has(last', "posted")

\* the step resumes handleSend with the response of request r
AskSettled(r) == last'.op = "handleSend:settled" /\ r \in queries /\ r \notin queries'

IsBlank(text) == \A i \in DOMAIN text : text[i] = " "

IsApology(m) ==
  /\ m.role = "assistant"
  /\ Has(m, "content") /\ m.content = ApologyText
  /\ Has(m, "isError") /\ m.isError = TRUE
  /\ ~Has(m, "citations")
  /\ ~Has(m, "confidence")

\* C1: asks made one at a time each lengthen the transcript by exactly 2: an
\* accepted call appends one user message, and when its request settles, with
\* an answer or with a failure, the transcript is the one the call started
\* from plus that user message plus one assistant message.
C1_AskAddsTwo ==
  [][ /\ AskAccepted =>
           /\ Len(messages') = Len(messages) + 1
           /\ SubSeq(messages', 1, Len(messages)) = messages
           /\ messages'[Len(messages')].role = "user"
      /\ \A r \in queries :
           AskSettled(r) =>
             /\ Len(messages') = Len(r.body.conversation_history) + 2
             /\ SubSeq(messages', 1, Len(r.body.conversation_history))
                  = r.body.conversation_history
             /\ messages'[Len(messages') - 1].role = "user"
             /\ messages'[Len(messages')].role = "assistant" ]_vars

\* two asks have completed, the first with a failure, the second with an answer
C1_Witness ==
  /\ last.op = "handleSend:settled"
  /\ Len(messages) = 4
  /\ Has(messages[2], "isError")
  /\ ~Has(messages[4], "isError")

C3_ReentrantAskIsNoOp ==
  [][ /\ (AskInvoked /\ loading) => UNCHANGED << messages, queries, loading >>
      /\ \A r \in queries :
           AskSettled(r) =>
             /\ Len(messages') = Len(messages) + 1
             /\ SubSeq(messages', 1, Len(messages)) = messages
             /\ messages'[Len(messages')].role = "assistant" ]_vars

\* a non-blank typed ask was made, online, while another was in flight
C3_Witness ==
  /\ last.op = "handleSend"
  /\ ~IsBlank(input)
  /\ isOnline
  /\ loading
  /\ queries # {}

\* C4: once the request of an accepted ask settles, the transcript holds the
\* transcript the ask started from, then its user message, then one assistant
\* message, whatever was done in between.
C4_ResolvedAskIsAnswered ==
  [][ \A r \in queries :
        AskSettled(r) =>
          /\ Len(messages') = Len(r.body.conversation_history) + 2
          /\ SubSeq(messages', 1, Len(r.body.conversation_history))
               = r.body.conversation_history
          /\ messages'[Len(messages') - 1].role = "user"
          /\ messages'[Len(messages')].role = "assistant" ]_vars

\* C5: when the request fails with a network error or a non-2xx status, the
\* transcript ends with the apology message: isError, no citations, no
\* confidence; and handleSend does not throw.
C5_FailureBecomesApology ==
  [][ (last'.op = "handleSend:settled" /\ last'.response.kind \in {"network", "http"}) =>
        /\ Len(messages') = Len(messages) + 1
        /\ IsApology(messages'[Len(messages')])
        /\ ~last'.raised ]_vars

\* a request ended in a non-2xx status and the apology is the last message
C5_Witness ==
  /\ last.op = "handleSend:settled"
  /\ last.response.kind = "http"
  /\ messages # <<>>
  /\ IsApology(messages[Len(messages)])

\* C6: when the request is answered 2xx with a body that has no answer field,
\* the message appended is the apology message.
C6_MalformedBecomesApology ==
  [][ ( /\ last'.op = "handleSend:settled"
        /\ last'.response.kind = "ok"
        /\ ~Has(last'.response.data, "answer") ) =>
        /\ Len(messages') = Len(messages) + 1
        /\ IsApology(messages'[Len(messages')]) ]_vars

\* C7: a typed ask whose text is empty or only whitespace changes neither the
\* transcript, nor the outstanding requests, nor the in-flight flag.
C7_BlankAskIsNoOp ==
  [][ (last'.op = "handleSend" /\ IsBlank(input)) =>
        UNCHANGED << messages, queries, loading >> ]_vars

\* a whitespace-only text was sent, online, with no ask in flight
C7_Witness ==
  /\ last.op = "handleSend"
  /\ input = <<" ">>
  /\ isOnline
  /\ ~loading

\* C8: an ask made while isOnline is false sends no request and changes
\* neither the transcript nor the in-flight flag.
C8_OfflineAskIsRejected ==
  [][ (AskInvoked /\ ~isOnline) =>
        /\ UNCHANGED << messages, queries, loading >>
        /\ ~Has(last', "posted") ]_vars

\* a suggestion was sent while offline, after an earlier ask had completed
C8_Witness ==
  /\ last.op = "handleSend(q)"
  /\ last.alert = OfflineAlert
  /\ ~isOnline
  /\ Len(messages) = 2

\* C9: the in-flight flag is clear after every settled request, on the answer
\* path and on the failure path; an ask rejected early leaves the flag as it
\* was; and a non-blank ask made online with the flag clear is accepted.
C9_LockReleased ==
  [][ /\ (\E r \in queries : AskSettled(r)) => ~loading'
      /\ (AskInvoked /\ ~AskAccepted) => loading' = loading
      /\ (last'.op = "handleSend(q)" /\ ~loading /\ isOnline) =>
           (AskAccepted /\ loading') ]_vars

\* the first request failed, the flag was released, and a second ask was
\* accepted
C9_Witness ==
  /\ Len(messages) = 3
  /\ Has(messages[2], "isError")
  /\ loading
  /\ last.op \in SendOps
  /\ Has(last, "posted")

\* the query handleFeedback should send for the message at index i: the
\* content of the closest user message before it, '' when there is none
PrecedingQuery(msgs, i) ==
  LET before == { j \in 1..(i - 1) : msgs[j].role = "user" }
  IN IF before = {} THEN <<>>
     ELSE msgs[CHOOSE j \in before : \A k \in before : k <= j].content

\* C10: the query posted with the feedback on a message is the content of the
\* most recent user message before that message.
C10_FeedbackQueryPrecedes ==
  [][ last'.op = "handleFeedback" =>
        last'.posted.query = PrecedingQuery(messages, last'.target) ]_vars

\* the texts a user can hand to handleSend: typed ones and suggestions
RawTexts == Texts \cup { suggestedQuestions[i] : i \in DOMAIN suggestedQuestions }

\* C11: the query posted to /chat/feedback is the content of a user message
\* of the transcript, which is a text as the user entered it, without the
\* language instruction that went to /chat/query.
C11_FeedbackQueryIsRaw ==
  [][ last'.op = "handleFeedback" =>
        /\ last'.posted.query \in RawTexts
        /\ \E j \in DOMAIN messages :
             /\ messages[j].role = "user"
             /\ messages[j].content = last'.posted.query ]_vars

\* feedback was given while the ask for that very question, sent with the
\* Hindi instruction in front, was still outstanding
C11_Witness ==
  /\ last.op = "handleFeedback"
  /\ \E r \in queries :
       r.body.query = <<"Please answer in ", "Hindi", ". ">> \o last.posted.query

\* C12: the transcript is append-only: but for a page reload, every step
\* leaves it as it is or adds one message at its end; an upload that succeeds
\* and a statistics refresh leave it as it is.
C12_TranscriptAppendOnly ==
  [][ last'.op # "mount" =>
        \/ messages' = messages
        \/ /\ Len(messages') = Len(messages) + 1
           /\ SubSeq(messages', 1, Len(messages)) = messages ]_vars

\* C13: the body posted to /chat/query has top_k = 5 and, as
\* conversation_history, the transcript as it was before the user message of
\* this ask, each message reduced to its role and content.
C13_HistoryIsRoleContentPairs ==
  [][ AskAccepted =>
        LET history == last'.posted.conversation_history
        IN /\ last'.posted.top_k = 5
           /\ Len(history) = Len(messages)
           /\ \A i \in DOMAIN history :
                /\ DOMAIN history[i] \subseteq {"role", "content"}
                /\ history[i].role = messages[i].role
                /\ Has(messages[i], "content") =>
                     (Has(history[i], "content")
                        /\ history[i].content = messages[i].content) ]_vars

\* the text handleSend was called with in this step
TextSent ==
  IF last'.op = "handleSend" THEN input
  ELSE CHOOSE q \in { suggestedQuestions[i] : i \in DOMAIN suggestedQuestions } :
         messages'[Len(messages')].content = q

\* C14: the query of an accepted ask is "Please answer in <language>. "
\* followed by the raw text when the language is not English and the raw text
\* alone when it is; the user message appended holds the raw text.
C14_QueryIsAugmented ==
  [][ AskAccepted =>
        /\ messages'[Len(messages')].role = "user"
        /\ messages'[Len(messages')].content \in RawTexts
        /\ messages'[Len(messages')].content = TextSent
        /\ last'.posted.query =
             IF language = "English" THEN TextSent
             ELSE <<"Please answer in ", language, ". ">> \o TextSent ]_vars

\* a typed question was accepted with Hindi selected
C14_Witness ==
  /\ last.op = "handleSend"
  /\ Has(last, "posted")
  /\ language = "Hindi"
  /\ last.posted.query = <<"Please answer in ", "Hindi", ". ", "q", " ">>
  /\ messages[Len(messages)].content = <<"q", " ">>

\* the step is a call of handleSend with a text that is not blank
AskWithText == AskInvoked /\ (last'.op = "handleSend" => ~IsBlank(input))

\* C15: a call of handleFeedback and its settling, with success or with
\* failure, leave the transcript and the in-flight lock as they are, send no
\* query and raise nothing; handleSend called online with a text, with no
\* query in flight, sends its request with feedback submissions outstanding.
C15_FeedbackIsIndependent ==
  [][ /\ last'.op \in {"handleFeedback", "handleFeedback:settled"} =>
           /\ UNCHANGED << messages, loading, input, language, queries >>
           /\ ~last'.raised
      /\ (AskWithText /\ feedbacks > 0 /\ ~loading /\ isOnline) =>
           (AskAccepted /\ feedbacks' = feedbacks) ]_vars

\* a question was sent while a feedback submission was outstanding
C15_Witness ==
  /\ last.op \in SendOps
  /\ Has(last, "posted")
  /\ feedbacks > 0
  /\ loading

\* the lines of a given kind in an export, in order
LinesOf(content, kind) == SelectSeq(content, LAMBDA l : l.kind = kind)

\* C16: the export of a transcript of N messages has N role labels and N
\* contents, those of the messages in transcript order, and a footer whose
\* total is N and whose questions and answers add up to N.
C16_ExportHasAllMessages ==
  [][ (last'.op = "downloadChat" /\ Has(last', "artifact")) =>
        LET content == last'.artifact
            N == Len(messages)
        IN /\ Len(LinesOf(content, "role")) = N
           /\ Len(LinesOf(content, "content")) = N
           /\ \A i \in 1..N :
                /\ LinesOf(content, "role")[i].label =
                     (IF messages[i].role = "user" THEN "USER" ELSE "ASSISTANT")
                /\ Has(messages[i], "content") =>
                     LinesOf(content, "content")[i].text = messages[i].content
           /\ Len(LinesOf(content, "total")) = 1
           /\ LinesOf(content, "total")[1].count = N
           /\ LinesOf(content, "questions")[1].count
                + LinesOf(content, "answers")[1].count = N
           /\ content[Len(content) - 2].kind = "total" ]_vars

\* a transcript of two asks, one of them failed, was exported
C16_Witness ==
  /\ last.op = "downloadChat"
  /\ Has(last, "artifact")
  /\ Len(messages) = 4
  /\ \E i \in DOMAIN messages : Has(messages[i], "isError")
  /\ Len(LinesOf(last.artifact, "role")) = 4

\* C17: the export has a confidence line for a message exactly when the
\* message has a confidence, 0 included.
C17_ConfidenceLineIffPresent ==
  [][ (last'.op = "downloadChat" /\ Has(last', "artifact")) =>
        Len(LinesOf(last'.artifact, "confidence")) =
          Len(SelectSeq(messages, LAMBDA m : Has(m, "confidence"))) ]_vars

\* C18: every assistant message of the transcript, answer or apology, has a
\* user message at an earlier position.
C18_AssistantFollowsUser ==
  \A i \in DOMAIN messages :
    messages[i].role = "assistant" =>
      \E j \in 1..(i - 1) : messages[j].role = "user"

\* the response to a question of an unmounted ChatInterface arrived after the
\* one mounted since had its own question answered
C18_Witness ==
  /\ uploadKey > 0
  /\ last.op = "handleSend:settled"
  /\ Len(messages) = 2
  /\ messages[2].role = "assistant"
  /\ messages[2].timestamp + 1 < clock

\* the step is loadStats or checkHealthStatus resumed with its response
CheckSettled ==
  /\ uploadKey' = uploadKey
  /\ uploading' = uploading
  /\ \/ pendingStats' = pendingStats - 1 /\ pendingHealth' = pendingHealth
     \/ pendingHealth' = pendingHealth - 1 /\ pendingStats' = pendingStats

\* C19: within one load of the page, isOnline goes from false to true only in
\* a step that resumes loadStats or checkHealthStatus with its response; an
\* ask, a feedback, an export, an upload or its completion leave a false
\* isOnline false.
C19_OfflineIsSticky ==
  [][ (~isOnline /\ isOnline' /\ last'.op # "mount") => CheckSettled ]_vars

\* an upload succeeded while the page was marked offline, and it still is
C19_Witness ==
  /\ ~isOnline
  /\ last.alert = "Document uploaded successfully"

\* C20: while a request of the mounted ChatInterface is in flight the lock is
\* held and the transcript is the history the request carries plus the user
\* message of the ask; an assistant message is appended only by the step that
\* resumes handleSend with the response of such a request.
C20_AskIsOrdered ==
  /\ [](\A r \in queries :
          r.key = uploadKey =>
            /\ loading
            /\ Len(messages) = Len(r.body.conversation_history) + 1
            /\ SubSeq(messages, 1, Len(messages) - 1) = r.body.conversation_history
            /\ messages[Len(messages)].role = "user")
  /\ [][ (/\ Len(messages') = Len(messages) + 1
          /\ messages'[Len(messages')].role = "assistant") =>
           \E r \in queries :
             /\ AskSettled(r)
             /\ r.key = uploadKey
             /\ messages' = Append(r.body.conversation_history, messages[Len(messages)])
                              \o << messages'[Len(messages')] >> ]_vars

\* the second question of a transcript was answered
C20_Witness ==
  /\ last.op = "handleSend:settled"
  /\ Len(messages) = 4
  /\ messages[3].role = "user"
  /\ messages[4].role = "assistant"
  /\ ~loading

\* C21: the transcript alternates user, assistant, user, ... from a user
\* message on; loading is set exactly when its length is odd, which is
\* exactly when a request of the mounted ChatInterface is in flight.
C21_TranscriptAlternates ==
  /\ \A i \in DOMAIN messages :
       messages[i].role = (IF i % 2 = 1 THEN "user" ELSE "assistant")
  /\ loading <=> (Len(messages) % 2 = 1)
  /\ loading <=> (\E r \in queries : r.key = uploadKey)

\* the second question is in flight after the first one failed
C21_Witness ==
  /\ Len(messages) = 3
  /\ loading
  /\ Has(messages[2], "isError")
  /\ messages[3].role = "user"

\* C22: downloadChat hands a file to the browser exactly when the transcript
\* has a message; on an empty transcript it only alerts; in both cases the
\* transcript, the language and loading stay as they are.
C22_EmptyExportIsNoOp ==
  [][ last'.op = "downloadChat" =>
        /\ Has(last', "artifact") <=> (Len(messages) > 0)
        /\ (Len(messages) = 0) => last'.alert = "No chat to download yet"
        /\ Has(last', "artifact") => Len(last'.artifact) > 0
        /\ UNCHANGED << messages, language, loading, input, queries >> ]_vars

\* an export was asked for on an empty transcript, with Hindi selected
C22_Witness ==
  /\ last.op = "downloadChat"
  /\ ~Has(last, "artifact")
  /\ last.alert = "No chat to download yet"
  /\ messages = <<>>
  /\ language = "Hindi"

====
